---- MODULE Spec2Model ----
(***************************************************************************)
(* The polygon area-partitioning engine of ngesplit (split.js): the        *)
(* geometry primitives, the horizontal clipper, the chord search, the band *)
(* search and the four partition drivers.                                  *)
(*                                                                         *)
(* Numbers.  A JavaScript number is modelled by an exact rational <<n, d>> *)
(* in lowest terms with d > 0; Infinity is <<1, 0>>.  The source computes  *)
(* in IEEE doubles, so the model is the source with exact arithmetic: the  *)
(* literals 0.05 and 0.01 are 1/20 and 1/100.  On the input rings below    *)
(* every comparison the source makes in doubles comes out as it does here. *)
(*                                                                         *)
(* Indices.  JavaScript arrays start at 0 and sequences at 1: polygon[i]   *)
(* of the source is polygon[i + 1] here, and the loop variables keep the   *)
(* source's 0-based values.                                                *)
(***************************************************************************)
EXTENDS Integers, Sequences, FiniteSets, TLC

\* ------------------------------------------------------------------------
\* Exact rational arithmetic (the model of JavaScript numbers)
\* ------------------------------------------------------------------------

IAbs(x) == IF x < 0 THEN -x ELSE x

RECURSIVE GCD(_, _)
GCD(a, b) == IF b = 0 THEN a ELSE GCD(b, a % b)

\* n / d in lowest terms, d > 0
Q(n, d) ==
    LET g == GCD(IAbs(n), d)
    IN  IF g = 0 THEN <<0, 1>> ELSE <<n \div g, d \div g>>

QInt(n) == <<n, 1>>

Zero == <<0, 1>>

Infinity == <<1, 0>>

QAdd(a, b) ==
    LET g == GCD(a[2], b[2])
        l == (a[2] \div g) * b[2]
    IN  Q(a[1] * (l \div a[2]) + b[1] * (l \div b[2]), l)

QNeg(a) == <<-a[1], a[2]>>

QSub(a, b) == QAdd(a, QNeg(b))

QMul(a, b) ==
    LET g1 == GCD(IAbs(a[1]), b[2])
        g2 == GCD(IAbs(b[1]), a[2])
    IN  <<(a[1] \div g1) * (b[1] \div g2), (a[2] \div g2) * (b[2] \div g1)>>

\* a / b, b # 0
QDiv(a, b) ==
    QMul(a, IF b[1] > 0 THEN <<b[2], b[1]>> ELSE <<-b[2], -b[1]>>)

QAbs(a) == <<IAbs(a[1]), a[2]>>

\* a < b; every finite number is below Infinity
QLt(a, b) ==
    IF b = Infinity THEN a # Infinity
    ELSE IF a = Infinity THEN FALSE
    ELSE QSub(a, b)[1] < 0

QLe(a, b) == a = b \/ QLt(a, b)

\* Number.isInteger
isInteger(a) == a[2] = 1

\* Math.round: the nearest integer, halves rounded up
round(a) == QInt((2 * a[1] + a[2]) \div (2 * a[2]))

\* Math.max of two numbers
max(a, b) == IF QLt(a, b) THEN b ELSE a

\* ------------------------------------------------------------------------
\* Geometry primitives
\* ------------------------------------------------------------------------

\* the point [x, y] with integer coordinates
P(x, y) == <<QInt(x), QInt(y)>>

RECURSIVE shoelaceSum(_, _, _)
shoelaceSum(points, i, area) ==
    IF i >= Len(points) THEN area
    ELSE LET a == points[i + 1]
             b == points[((i + 1) % Len(points)) + 1]
         IN  shoelaceSum(points, i + 1,
                 QAdd(area, QSub(QMul(a[1], b[2]), QMul(b[1], a[2]))))

\* shoelaceArea without Math.abs
absAreaMissing(area) == area

\* the sign handling of shoelaceArea's last line
absArea(area) == QAbs(area)

shoelaceArea(points) == QDiv(absArea(shoelaceSum(points, 0, Zero)), QInt(2))

interpolate(p1, p2, t) ==
    <<QAdd(p1[1], QMul(t, QSub(p2[1], p1[1]))),
      QAdd(p1[2], QMul(t, QSub(p2[2], p1[2])))>>

RECURSIVE clipEdges(_, _, _, _, _)
\* the loop of clipHorizontal from edge i on, clipped being what is pushed so far
clipEdges(polygon, yMin, yMax, i, clipped) ==
    IF i >= Len(polygon) THEN clipped
    ELSE LET a == polygon[i + 1]
             b == polygon[((i + 1) % Len(polygon)) + 1]
             x1 == a[1]
             y1 == a[2]
             x2 == b[1]
             y2 == b[2]
             inside == QLe(yMin, y1) /\ QLe(y1, yMax)
             crossMin == (QLt(y1, yMin) /\ QLt(yMin, y2)) \/ (QLt(yMin, y1) /\ QLt(y2, yMin))
             crossMax == (QLt(y1, yMax) /\ QLt(yMax, y2)) \/ (QLt(yMax, y1) /\ QLt(y2, yMax))
             atMin == <<QAdd(x1, QMul(QDiv(QSub(yMin, y1), QSub(y2, y1)), QSub(x2, x1))), yMin>>
             atMax == <<QAdd(x1, QMul(QDiv(QSub(yMax, y1), QSub(y2, y1)), QSub(x2, x1))), yMax>>
             c1 == IF inside THEN Append(clipped, a) ELSE clipped
             c2 == IF crossMin THEN Append(c1, atMin) ELSE c1
             c3 == IF crossMax THEN Append(c2, atMax) ELSE c2
         IN  clipEdges(polygon, yMin, yMax, i + 1, c3)

clipHorizontal(polygon, yMin, yMax) ==
    LET clipped == clipEdges(polygon, yMin, yMax, 0, <<>>)
    IN  IF Len(clipped) > 0 /\ clipped[1] # clipped[Len(clipped)]
        THEN Append(clipped, clipped[1])
        ELSE clipped

RECURSIVE walk(_, _, _, _)
\* the vertices polygon[k], polygon[k + 1], ... (cyclically) up to, not
\* including, polygon[stop], appended to poly
walk(polygon, k, stop, poly) ==
    IF k = stop THEN poly
    ELSE walk(polygon, (k + 1) % Len(polygon), stop, Append(poly, polygon[k + 1]))

\* splitAtEdges whose second walk starts one vertex late
splitAtEdgesLateStart(polygon, i, j, ti, tj) ==
    LET n == Len(polygon)
        pi == interpolate(polygon[i + 1], polygon[((i + 1) % n) + 1], ti)
        pj == interpolate(polygon[j + 1], polygon[((j + 1) % n) + 1], tj)
        poly1 == Append(walk(polygon, (i + 1) % n, (j + 1) % n, <<pi>>), pj)
        poly2 == Append(walk(polygon, (j + 2) % n, (i + 1) % n, <<pj>>), pi)
    IN  <<poly1, poly2>>

splitAtEdges(polygon, i, j, ti, tj) ==
    LET n == Len(polygon)
        pi == interpolate(polygon[i + 1], polygon[((i + 1) % n) + 1], ti)
        pj == interpolate(polygon[j + 1], polygon[((j + 1) % n) + 1], tj)
        poly1 == Append(walk(polygon, (i + 1) % n, (j + 1) % n, <<pi>>), pj)
        poly2 == Append(walk(polygon, (j + 1) % n, (i + 1) % n, <<pj>>), pi)
    IN  <<poly1, poly2>>

\* ------------------------------------------------------------------------
\* Chord search
\* ------------------------------------------------------------------------

\* JavaScript's null
Null == <<>>

\* the default values of findOptimalSplit's parameters
DefaultSteps == 10

DefaultTolerance == Q(1, 20)

\* a skip of the same edge only
skipPairSameEdgeOnly(i, j, n) == IAbs(i - j) < 1 \/ IAbs(i - j) > n - 1

\* "Skip adjacent edges and same edge"
skipPair(i, j, n) == IAbs(i - j) < 2 \/ IAbs(i - j) > n - 2

\* diff <= bestDiff
improvesOrTies(diff, bestDiff) == QLe(diff, bestDiff)

\* diff < bestDiff
improves(diff, bestDiff) == QLt(diff, bestDiff)

\* The body of the innermost loop for the candidate (i, j, si, sj).  s is the
\* state of the search: s.returned once the early exit was taken, s.split the
\* value to return (bestSplit, or the early-exit cut), s.bestDiff.
tryCandidate(polygon, targetArea, steps, tolerance, c, s) ==
    LET ti == QDiv(QInt(c[3]), QInt(steps))
        tj == QDiv(QInt(c[4]), QInt(steps))
        polys == splitAtEdges(polygon, c[1], c[2], ti, tj)
        area == shoelaceArea(polys[1])
        diff == QAbs(QSub(area, targetArea))
        better == improves(diff, s.bestDiff)
        within == QLt(diff, QMul(tolerance, targetArea))
    IN  [returned |-> within,
         split    |-> IF within \/ better THEN polys ELSE s.split,
         bestDiff |-> IF better THEN diff ELSE s.bestDiff]

RECURSIVE loopSj(_, _, _, _, _, _)
loopSj(polygon, targetArea, steps, tolerance, c, s) ==
    IF s.returned \/ c[4] >= steps THEN s
    ELSE loopSj(polygon, targetArea, steps, tolerance,
                <<c[1], c[2], c[3], c[4] + 1>>,
                tryCandidate(polygon, targetArea, steps, tolerance, c, s))

RECURSIVE loopSi(_, _, _, _, _, _)
loopSi(polygon, targetArea, steps, tolerance, c, s) ==
    IF s.returned \/ c[3] >= steps THEN s
    ELSE loopSi(polygon, targetArea, steps, tolerance,
                <<c[1], c[2], c[3] + 1, 1>>,
                loopSj(polygon, targetArea, steps, tolerance, <<c[1], c[2], c[3], 1>>, s))

RECURSIVE loopJ(_, _, _, _, _, _)
loopJ(polygon, targetArea, steps, tolerance, c, s) ==
    IF s.returned \/ c[2] >= Len(polygon) THEN s
    ELSE loopJ(polygon, targetArea, steps, tolerance,
               <<c[1], c[2] + 1, 1, 1>>,
               IF skipPair(c[1], c[2], Len(polygon)) THEN s
               ELSE loopSi(polygon, targetArea, steps, tolerance, <<c[1], c[2], 1, 1>>, s))

RECURSIVE loopI(_, _, _, _, _, _)
loopI(polygon, targetArea, steps, tolerance, c, s) ==
    IF s.returned \/ c[1] >= Len(polygon) THEN s
    ELSE loopI(polygon, targetArea, steps, tolerance,
               <<c[1] + 1, 0, 1, 1>>,
               loopJ(polygon, targetArea, steps, tolerance, <<c[1], 0, 1, 1>>, s))

\* <<poly1, poly2>>, or Null
findOptimalSplit(polygon, targetArea, steps, tolerance) ==
    loopI(polygon, targetArea, steps, tolerance, <<0, 0, 1, 1>>,
          [returned |-> FALSE, split |-> Null, bestDiff |-> Infinity]).split

\* ------------------------------------------------------------------------
\* Band search
\* ------------------------------------------------------------------------

\* the iterations of the binary search
BinarySearchIterations == 20

BandTolerance == Q(1, 100)

RECURSIVE binarySearch(_, _, _, _, _, _)
\* The binary search of splitHorizontalEqualArea from iteration iter on:
\* bestSlice, or Null when no iteration came within the tolerance.
binarySearch(remaining, currentY, targetArea, low, high, iter) ==
    IF iter >= BinarySearchIterations THEN Null
    ELSE LET midY == QDiv(QAdd(low, high), QInt(2))
             slice == clipHorizontal(remaining, currentY, midY)
             area == shoelaceArea(slice)
         IN  IF QLt(QAbs(QSub(area, targetArea)), QMul(BandTolerance, targetArea))
             THEN slice
             ELSE IF QLt(area, targetArea)
                  THEN binarySearch(remaining, currentY, targetArea, midY, high, iter + 1)
                  ELSE binarySearch(remaining, currentY, targetArea, low, midY, iter + 1)

\* JavaScript's truthiness of an array-or-null value: null is falsy, every
\* array (the empty one too) is truthy.  A slice is a ring of points and is
\* never empty when it was accepted, so Null = <<>> stands for null alone.
fallbackSlice(remaining, currentY, maxY, count, i) ==
    clipHorizontal(remaining, currentY,
        QAdd(currentY, QDiv(QSub(maxY, currentY), QInt(count - i))))

\* the slice one iteration of the band loop accepts
findBand(remaining, currentY, maxY, targetArea, count, i) ==
    LET found == binarySearch(remaining, currentY, targetArea, currentY, maxY, 0)
    IN  IF found = Null THEN fallbackSlice(remaining, currentY, maxY, count, i)
        ELSE found

\* "Get maxY from last point"
sliceTop(bestSlice) == bestSlice[Len(bestSlice)][2]

RECURSIVE minOfYs(_, _, _)
minOfYs(coords, k, m) ==
    IF k > Len(coords) THEN m
    ELSE minOfYs(coords, k + 1, IF QLt(coords[k][2], m) THEN coords[k][2] ELSE m)

RECURSIVE maxOfYs(_, _, _)
maxOfYs(coords, k, m) ==
    IF k > Len(coords) THEN m
    ELSE maxOfYs(coords, k + 1, IF QLt(m, coords[k][2]) THEN coords[k][2] ELSE m)

\* Math.min(...ys) and Math.max(...ys) of a ring with at least one point
minYOf(coords) == minOfYs(coords, 2, coords[1][2])

maxYOf(coords) == maxOfYs(coords, 2, coords[1][2])

\* ------------------------------------------------------------------------
\* Validation and the derived count
\* ------------------------------------------------------------------------

\* A JavaScript value handed in as the ring: an array of points, or something
\* that is no array.
ArrayOf(ring) == [array |-> TRUE, v |-> ring]

NotAnArray == [array |-> FALSE, v |-> <<>>]

isArray(coords) == coords.array

\* a count check without Number.isInteger
countOkAnyPositive(count) == ~QLe(count, Zero)

\* the negation of "count <= 0 || !Number.isInteger(count)"
countOk(count) == ~(QLe(count, Zero) \/ ~isInteger(count))

\* the negation of "area <= 0"
areaOk(a) == ~QLe(a, Zero)

\* the count derived with Math.floor
derivedCountFloor(totalArea, a) ==
    max(QInt(1), QInt(QDiv(totalArea, a)[1] \div QDiv(totalArea, a)[2]))

\* Math.max(1, Math.round(totalArea / area))
derivedCount(totalArea, a) == max(QInt(1), round(QDiv(totalArea, a)))

\* a loop that runs once more
chordLoopGuardOnceMore(i, count) == i < count

\* the loop conditions "i < count - 1" of the two count drivers
chordLoopGuard(i, count) == i < count - 1

bandLoopGuard(i, count) == i < count - 1

\* ------------------------------------------------------------------------
\* State
\* ------------------------------------------------------------------------

VARIABLES
    pc,          \* where the running driver call stands
    mode,        \* the driver called: "count", "area", "horizontal-count", "horizontal-area"
    coords,      \* the ring argument
    value,       \* the numeric argument: a count or an area
    count,       \* the count the loop runs with (an integer), 0 before it is known
    totalArea,   \* shoelaceArea of the input ring, Unset before it is computed
    parts,       \* the pieces pushed so far; the returned array at "done"
    i,           \* the loop counter
    current,     \* splitEqualArea: the ring still to be split
    target,      \* splitEqualArea: the target of the last search
    cut,         \* splitEqualArea: what the last search returned
    minY,        \* splitHorizontalEqualArea: locals
    maxY,
    targetArea,
    currentY,
    remaining,
    bestSlice,
    computed,    \* whether any area, search or clipping computation has run
    error,       \* the message of the thrown error, "" when none
    base,        \* the ring an area walk started from
    points,      \* the ring last handed to shoelaceArea
    area,        \* what shoelaceArea returned for points
    polygon,     \* the arguments of a direct clipHorizontal call
    yMin,
    yMax,
    clipped      \* what clipHorizontal returned

Unset == <<>>

\* cut before any search has run
Undefined == <<Unset>>

driverVars ==
    <<pc, mode, coords, value, count, totalArea, parts, i, current, target, cut,
      minY, maxY, targetArea, currentY, remaining, bestSlice, computed, error>>

chordLocals == <<current, target, cut>>

bandLocals == <<minY, maxY, targetArea, currentY, remaining, bestSlice>>

areaVars == <<base, points, area>>

clipVars == <<polygon, yMin, yMax, clipped>>

vars ==
    <<pc, mode, coords, value, count, totalArea, parts, i, current, target, cut,
      minY, maxY, targetArea, currentY, remaining, bestSlice, computed, error,
      base, points, area, polygon, yMin, yMax, clipped>>

\* ------------------------------------------------------------------------
\* Input rings
\* ------------------------------------------------------------------------

Square == <<P(0, 0), P(10, 0), P(10, 10), P(0, 10)>>

Rectangle == <<P(0, 0), P(6, 0), P(6, 3), P(0, 3)>>

Segment == <<P(0, 0), P(0, 4)>>

\* four points on a line: a ring of no area
Flat == <<P(0, 0), P(2, 0), P(4, 0), P(6, 0)>>

Triangle == <<P(0, 0), P(4, 0), P(0, 4)>>

Trapezoid == <<P(0, 0), P(6, 0), P(4, 4), P(2, 4)>>

Pentagon == <<P(0, 0), P(4, 0), P(6, 2), P(2, 6), P(0, 4)>>

Hexagon == <<P(2, 0), P(4, 0), P(6, 2), P(4, 4), P(2, 4), P(0, 2)>>

Diamond == <<P(2, 0), P(4, 2), P(2, 4), P(0, 2)>>

\* two rings that are not convex
LShape == <<P(0, 0), P(6, 0), P(6, 2), P(2, 2), P(2, 6), P(0, 6)>>

Chevron == <<P(0, 0), P(2, 1), P(4, 0), P(4, 4), P(2, 2), P(0, 4)>>

\* the ring with its vertex order reversed
Reversed(ring) == [k \in 1..Len(ring) |-> ring[Len(ring) + 1 - k]]

\* the ring started k vertices later
Rotated(ring, k) == [m \in 1..Len(ring) |-> ring[((m - 1 + k) % Len(ring)) + 1]]

\* the ring with its first point repeated as its last (a GeoJSON ring)
Closed(ring) == Append(ring, ring[1])

\* every starting vertex and both winding directions of a ring
Orbit(ring) ==
    {Rotated(ring, k) : k \in 0..(Len(ring) - 1)} \cup
    {Rotated(Reversed(ring), k) : k \in 0..(Len(ring) - 1)}

AreaRings == {Square, Rectangle, Triangle, Trapezoid, Pentagon, Hexagon, LShape, Chevron}

ChordRings ==
    {Square, Rotated(Square, 2), Reversed(Square), Rectangle, Trapezoid, Pentagon,
     Hexagon, Diamond, Closed(Trapezoid), Closed(Pentagon), Closed(Triangle),
     Triangle, Segment, <<>>, Flat, LShape, Chevron}

BandRings ==
    Orbit(Square) \cup
    {Closed(Square), Closed(Rotated(Square, 2)), Rectangle, Rotated(Rectangle, 2),
     Triangle, Trapezoid, Diamond, LShape, Rotated(LShape, 3), Segment}

\* the largest count a driver is called with
MaxCount == 4

\* the numeric arguments: the counts 1..MaxCount, and 0, a negative number and
\* a non-integer
Counts == {QInt(n) : n \in 1..MaxCount} \cup {Zero, QInt(-1), Q(3, 2)}

\* a target area is given as a fraction of the ring's area: totalArea * f, and
\* the non-positive areas 0 and -1; a ring of no area is also given the area 1
AreaFractions == {Q(1, n) : n \in 1..MaxCount} \cup {Q(2, 5), Q(2, 3), QInt(3)}

Areas(ring) ==
    {QMul(shoelaceArea(ring), f) : f \in AreaFractions} \cup {Zero, QInt(-1)} \cup
    (IF shoelaceArea(ring) = Zero THEN {QInt(1)} ELSE {})

\* ------------------------------------------------------------------------
\* The four partition drivers
\* ------------------------------------------------------------------------

Idle ==
    /\ pc = "idle"
    /\ mode = ""
    /\ coords = NotAnArray
    /\ value = Zero
    /\ count = 0
    /\ totalArea = Unset
    /\ parts = <<>>
    /\ i = 0
    /\ current = <<>>
    /\ target = Unset
    /\ cut = Undefined
    /\ minY = Unset
    /\ maxY = Unset
    /\ targetArea = Unset
    /\ currentY = Unset
    /\ remaining = <<>>
    /\ bestSlice = <<>>
    /\ computed = FALSE
    /\ error = ""

NoAreaWalk == base = <<>> /\ points = <<>> /\ area = Unset

NoClip == polygon = <<>> /\ yMin = Unset /\ yMax = Unset /\ clipped = Unset

Init == Idle /\ NoAreaWalk /\ NoClip

\* throw new Error(message)
Throw(message) ==
    /\ pc' = "threw"
    /\ error' = message
    /\ UNCHANGED <<count, totalArea, parts, i, current, target, cut,
                   minY, maxY, targetArea, currentY, remaining, bestSlice, computed>>

\* splitEqualArea from its first line to the loop, called with (ring, c)
EnterSplitEqualArea(ring, c) ==
    IF ~isArray(ring) THEN Throw("Coordinates must be an array")
    ELSE IF ~countOk(c) THEN Throw("Count must be positive integer")
    ELSE /\ parts' = <<>>
         /\ current' = ring.v
         /\ totalArea' = shoelaceArea(ring.v)
         /\ computed' = TRUE
         /\ count' = c[1]
         /\ i' = 0
         /\ pc' = "chord"
         /\ error' = ""
         /\ UNCHANGED <<target, cut, minY, maxY, targetArea, currentY, remaining, bestSlice>>

\* splitHorizontalEqualArea from its first line to the loop
EnterSplitHorizontalEqualArea(ring, c) ==
    IF ~isArray(ring) THEN Throw("Coordinates must be an array")
    ELSE IF ~countOk(c) THEN Throw("Count must be positive integer")
    ELSE /\ minY' = minYOf(ring.v)
         /\ maxY' = maxYOf(ring.v)
         /\ totalArea' = shoelaceArea(ring.v)
         /\ targetArea' = QDiv(shoelaceArea(ring.v), c)
         /\ computed' = TRUE
         /\ parts' = <<>>
         /\ currentY' = minYOf(ring.v)
         /\ remaining' = ring.v
         /\ count' = c[1]
         /\ i' = 0
         /\ pc' = "band"
         /\ error' = ""
         /\ UNCHANGED <<current, target, cut, bestSlice>>

CallSplitEqualArea(ring, c) ==
    /\ pc = "idle"
    /\ mode' = "count"
    /\ coords' = ring
    /\ value' = c
    /\ EnterSplitEqualArea(ring, c)
    /\ UNCHANGED <<areaVars, clipVars>>

CallSplitByArea(ring, a) ==
    /\ pc = "idle"
    /\ mode' = "area"
    /\ coords' = ring
    /\ value' = a
    /\ IF ~isArray(ring) THEN Throw("Coordinates must be an array")
       ELSE IF ~areaOk(a) THEN Throw("Area must be positive")
       ELSE EnterSplitEqualArea(ring, derivedCount(shoelaceArea(ring.v), a))
    /\ UNCHANGED <<areaVars, clipVars>>

CallSplitHorizontalEqualArea(ring, c) ==
    /\ pc = "idle"
    /\ mode' = "horizontal-count"
    /\ coords' = ring
    /\ value' = c
    /\ EnterSplitHorizontalEqualArea(ring, c)
    /\ UNCHANGED <<areaVars, clipVars>>

CallSplitHorizontalByArea(ring, a) ==
    /\ pc = "idle"
    /\ mode' = "horizontal-area"
    /\ coords' = ring
    /\ value' = a
    /\ IF ~isArray(ring) THEN Throw("Coordinates must be an array")
       ELSE IF ~areaOk(a) THEN Throw("Area must be positive")
       ELSE EnterSplitHorizontalEqualArea(ring, derivedCount(shoelaceArea(ring.v), a))
    /\ UNCHANGED <<areaVars, clipVars>>

\* the target and the cut of iteration i on the ring cur
chordTarget(cur, c, k) == QDiv(shoelaceArea(cur), QInt(c - k))

\* splitEqualArea, loop body up to the search
ChordSearch ==
    /\ pc = "chord"
    /\ chordLoopGuard(i, count)
    /\ target' = chordTarget(current, count, i)
    /\ cut' = findOptimalSplit(current, chordTarget(current, count, i),
                               DefaultSteps, DefaultTolerance)
    /\ pc' = "cut"
    /\ UNCHANGED <<mode, coords, value, count, totalArea, parts, i, current,
                   bandLocals, computed, error, areaVars, clipVars>>

\* splitEqualArea, the rest of the loop body: "if (!cut) break", which leads to
\* the push of the remaining ring and the return, or the push of the piece
ChordApply ==
    /\ pc = "cut"
    /\ IF cut = Null
       THEN /\ parts' = Append(parts, current)
            /\ pc' = "done"
            /\ UNCHANGED <<current, i>>
       ELSE /\ parts' = Append(parts, cut[1])
            /\ current' = cut[2]
            /\ i' = i + 1
            /\ pc' = "chord"
    /\ UNCHANGED <<mode, coords, value, count, totalArea, target, cut,
                   bandLocals, computed, error, areaVars, clipVars>>

\* splitEqualArea, after the loop
ChordReturn ==
    /\ pc = "chord"
    /\ ~chordLoopGuard(i, count)
    /\ parts' = Append(parts, current)
    /\ pc' = "done"
    /\ UNCHANGED <<mode, coords, value, count, totalArea, i, chordLocals,
                   bandLocals, computed, error, areaVars, clipVars>>

\* splitHorizontalEqualArea, loop body up to the choice of bestSlice
BandSearch ==
    /\ pc = "band"
    /\ bandLoopGuard(i, count)
    /\ bestSlice' = findBand(remaining, currentY, maxY, targetArea, count, i)
    /\ pc' = "slice"
    /\ UNCHANGED <<mode, coords, value, count, totalArea, parts, i, chordLocals,
                   minY, maxY, targetArea, currentY, remaining, computed, error,
                   areaVars, clipVars>>

\* splitHorizontalEqualArea, the rest of the loop body.  Reading [1] of the
\* last point of an empty slice throws a TypeError.
BandApply ==
    /\ pc = "slice"
    /\ parts' = Append(parts, bestSlice)
    /\ IF Len(bestSlice) = 0
       THEN /\ pc' = "threw"
            /\ error' = "TypeError"
            /\ UNCHANGED <<currentY, remaining, i>>
       ELSE /\ currentY' = sliceTop(bestSlice)
            /\ remaining' = clipHorizontal(remaining, sliceTop(bestSlice), maxY)
            /\ i' = i + 1
            /\ pc' = "band"
            /\ UNCHANGED error
    /\ UNCHANGED <<mode, coords, value, count, totalArea, chordLocals,
                   minY, maxY, targetArea, bestSlice, computed, areaVars, clipVars>>

\* splitHorizontalEqualArea, after the loop
BandReturn ==
    /\ pc = "band"
    /\ ~bandLoopGuard(i, count)
    /\ parts' = IF Len(remaining) > 0 THEN Append(parts, remaining) ELSE parts
    /\ pc' = "done"
    /\ UNCHANGED <<mode, coords, value, count, totalArea, i, chordLocals,
                   bandLocals, computed, error, areaVars, clipVars>>

ChordInputs == {ArrayOf(r) : r \in ChordRings} \cup {NotAnArray}

BandInputs == {ArrayOf(r) : r \in BandRings} \cup {NotAnArray}

Next ==
    \/ \E ring \in ChordInputs, c \in Counts : CallSplitEqualArea(ring, c)
    \/ \E ring \in ChordInputs : \E a \in Areas(ring.v) : CallSplitByArea(ring, a)
    \/ \E ring \in BandInputs, c \in Counts : CallSplitHorizontalEqualArea(ring, c)
    \/ \E ring \in BandInputs : \E a \in Areas(ring.v) : CallSplitHorizontalByArea(ring, a)
    \/ ChordSearch
    \/ ChordApply
    \/ ChordReturn
    \/ BandSearch
    \/ BandApply
    \/ BandReturn

Spec == Init /\ [][Next]_vars

\* ------------------------------------------------------------------------
\* shoelaceArea applied along a walk over a ring's rotations and reversals
\* ------------------------------------------------------------------------

AreaInit ==
    /\ Idle
    /\ NoClip
    /\ base \in AreaRings
    /\ points = base
    /\ area = Unset

CallShoelaceArea ==
    /\ area = Unset
    /\ area' = shoelaceArea(points)
    /\ UNCHANGED <<base, points, driverVars, clipVars>>

ReverseRing ==
    /\ area # Unset
    /\ points' = Reversed(points)
    /\ area' = Unset
    /\ UNCHANGED <<base, driverVars, clipVars>>

RotateRing ==
    /\ area # Unset
    /\ points' = Rotated(points, 1)
    /\ area' = Unset
    /\ UNCHANGED <<base, driverVars, clipVars>>

AreaNext == CallShoelaceArea \/ ReverseRing \/ RotateRing

SpecArea == AreaInit /\ [][AreaNext]_vars

\* C7: for every ring of at least 3 points, shoelaceArea gives the same value
\* for the ring, for the ring reversed and for every rotation of its starting
\* vertex (every ring the walk reaches is one of these), and the value is
\* never negative.
C7_AreaInvariant ==
    area # Unset =>
        /\ Len(points) >= 3
        /\ area = shoelaceArea(base)
        /\ area[1] >= 0

C7_Witness ==
    /\ area # Unset
    /\ points # base
    /\ points \in {Rotated(Reversed(base), k) : k \in 1..(Len(base) - 1)}
    /\ area[1] > 0

\* ------------------------------------------------------------------------
\* clipHorizontal applied to a ring and a band
\* ------------------------------------------------------------------------

ClipRings == Orbit(Square) \cup Orbit(Diamond) \cup Orbit(Triangle)

\* the y-values a band is drawn from
ClipYs == {QInt(0), QInt(1), QInt(2), QInt(3), QInt(4), QInt(8), QInt(10)}

ClipInit ==
    /\ Idle
    /\ NoAreaWalk
    /\ polygon \in ClipRings
    /\ yMin \in ClipYs
    /\ yMax \in ClipYs
    /\ QLt(yMin, yMax)
    /\ clipped = Unset

CallClipHorizontal ==
    /\ clipped = Unset
    /\ clipped' = clipHorizontal(polygon, yMin, yMax)
    /\ UNCHANGED <<polygon, yMin, yMax, driverVars, areaVars>>

ClipNext == CallClipHorizontal

SpecClip == ClipInit /\ [][ClipNext]_vars

\* ------------------------------------------------------------------------
\* The drivers as functions of their arguments
\* ------------------------------------------------------------------------

RECURSIVE chordLoop(_, _, _, _)
\* the loop of splitEqualArea from iteration k on, and the final push
chordLoop(ps, cur, c, k) ==
    IF ~chordLoopGuard(k, c) THEN Append(ps, cur)
    ELSE LET found == findOptimalSplit(cur, chordTarget(cur, c, k),
                                       DefaultSteps, DefaultTolerance)
         IN  IF found = Null THEN Append(ps, cur)
             ELSE chordLoop(Append(ps, found[1]), found[2], c, k + 1)

\* splitEqualArea(ring, c) for an array ring and a positive integer c
splitEqualArea(ring, c) == chordLoop(<<>>, ring, c, 0)

RECURSIVE bandLoop(_, _, _, _, _, _, _)
\* the loop of splitHorizontalEqualArea from iteration k on, and the final push
bandLoop(ps, rem, curY, topY, tArea, c, k) ==
    IF ~bandLoopGuard(k, c)
    THEN IF Len(rem) > 0 THEN Append(ps, rem) ELSE ps
    ELSE LET slice == findBand(rem, curY, topY, tArea, c, k)
         IN  bandLoop(Append(ps, slice), clipHorizontal(rem, sliceTop(slice), topY),
                      sliceTop(slice), topY, tArea, c, k + 1)

\* splitHorizontalEqualArea(ring, c) for an array ring and a positive integer c
splitHorizontalEqualArea(ring, c) ==
    bandLoop(<<>>, ring, minYOf(ring), maxYOf(ring),
             QDiv(shoelaceArea(ring), QInt(c)), c, 0)

\* ------------------------------------------------------------------------
\* What the claims speak of
\* ------------------------------------------------------------------------

ChordModes == {"count", "area"}

BandModes == {"horizontal-count", "horizontal-area"}

RECURSIVE SumAreas(_)
SumAreas(rings) ==
    IF rings = <<>> THEN Zero
    ELSE QAdd(shoelaceArea(Head(rings)), SumAreas(Tail(rings)))

\* twice the signed area of the triangle p, q, r
Cross(p, q, r) ==
    QSub(QMul(QSub(q[1], p[1]), QSub(r[2], p[2])),
         QMul(QSub(q[2], p[2]), QSub(r[1], p[1])))

\* the ring (a simple polygon) turns one way only
IsConvex(ring) ==
    LET n == Len(ring)
        turn(k) == Cross(ring[k], ring[(k % n) + 1], ring[((k + 1) % n) + 1])
    IN  \/ \A k \in 1..n : turn(k)[1] >= 0
        \/ \A k \in 1..n : turn(k)[1] <= 0

\* |x - y| < eps
Near(x, y, eps) == QLt(QAbs(QSub(x, y)), eps)

\* C1: the square [[0,0],[10,0],[10,10],[0,10]] split by
\* splitHorizontalEqualArea with count 4 yields exactly 4 bands, each of height
\* 2.5 and area 25 within 1%, ordered by increasing y.
C1_SquareInFourBands ==
    (pc = "done" /\ mode = "horizontal-count" /\ coords = ArrayOf(Square)
        /\ value = QInt(4)) =>
        /\ Len(parts) = 4
        /\ \A k \in 1..Len(parts) :
              /\ Near(QSub(maxYOf(parts[k]), minYOf(parts[k])), Q(5, 2), Q(1, 40))
              /\ Near(shoelaceArea(parts[k]), QInt(25), Q(1, 4))
        /\ \A k \in 1..(Len(parts) - 1) :
              QLt(minYOf(parts[k]), minYOf(parts[k + 1]))

\* C2: in splitHorizontalEqualArea with count >= 2, after each accepted band
\* currentY is that band's top boundary, each band's minimum y is strictly
\* greater than the previous band's, and consecutive bands share at most the
\* cut line.
C2_BandsBottomToTop ==
    (mode \in BandModes /\ pc \in {"band", "done"} /\ count >= 2) =>
        /\ (pc = "band" /\ i >= 1) => currentY = maxYOf(parts[i])
        /\ \A k \in 1..(Len(parts) - 1) :
              /\ QLt(minYOf(parts[k]), minYOf(parts[k + 1]))
              /\ QLe(maxYOf(parts[k]), minYOf(parts[k + 1]))

\* C3: for a convex ring the areas of the pieces splitEqualArea returns sum to
\* the area of the ring; the square with count 2 yields pieces summing to 100.
C3_AreasSumToRing ==
    (pc = "done" /\ mode \in ChordModes /\ IsConvex(coords.v)) =>
        /\ SumAreas(parts) = shoelaceArea(coords.v)
        /\ (coords.v = Square /\ count = 2) => SumAreas(parts) = QInt(100)

C3_Witness ==
    /\ pc = "done"
    /\ mode = "count"
    /\ coords.v = Pentagon
    /\ Len(parts) = 4
    /\ \A k \in 1..Len(parts) : shoelaceArea(parts[k])[1] > 0

\* C4: splitEqualArea returns at least 1 and at most count pieces, the last
\* being the remaining ring; exactly count when no search returned null; and
\* when the search of iteration i returns null the loop stops there, with the
\* i pieces cut so far and the remaining ring.
C4_PieceCount ==
    /\ (pc \in {"chord", "cut"}) => Len(parts) = i
    /\ (pc = "done" /\ mode \in ChordModes) =>
          /\ 1 <= Len(parts)
          /\ Len(parts) <= count
          /\ parts[Len(parts)] = current
          /\ (cut # Null) => Len(parts) = count
          /\ (cut = Null) => Len(parts) = i + 1

C4_Witness ==
    /\ pc = "done"
    /\ mode = "count"
    /\ cut = Null
    /\ count = 3
    /\ Len(parts) = 1

\* C5: each driver fails with an error, returning no pieces and computing no
\* area, search or clip, when the ring is no array, when the count is zero,
\* negative or not an integer, or when the target area is zero or negative.
C5_InvalidArguments ==
    (/\ pc # "idle"
     /\ \/ ~coords.array
        \/ mode \in {"count", "horizontal-count"} /\ (value[1] <= 0 \/ value[2] # 1)
        \/ mode \in {"area", "horizontal-area"} /\ value[1] <= 0) =>
        /\ pc = "threw"
        /\ error # ""
        /\ parts = <<>>
        /\ ~computed

C5_Witness ==
    /\ pc = "threw"
    /\ mode = "horizontal-count"
    /\ coords.array
    /\ value = Q(3, 2)

\* the ratio area(ring) / a of a by-area call
AreaRatio == QDiv(shoelaceArea(coords.v), value)

\* max(1, round(r)): 1 below 3/2, else the integer c with c - 1/2 <= r < c + 1/2
NearestCount(r) ==
    IF QLt(r, Q(3, 2)) THEN 1
    ELSE CHOOSE c \in 1..(r[1] + 1) :
            QLe(QSub(QInt(c), Q(1, 2)), r) /\ QLt(r, QAdd(QInt(c), Q(1, 2)))

\* C6: splitByArea(ring, a) returns the result of splitEqualArea(ring, c) with
\* c = max(1, round(area(ring) / a)), hence at most c pieces; likewise
\* splitHorizontalByArea and splitHorizontalEqualArea.
C6_ByAreaDelegates ==
    /\ (pc = "done" /\ mode = "area") =>
          /\ parts = splitEqualArea(coords.v, NearestCount(AreaRatio))
          /\ Len(parts) <= NearestCount(AreaRatio)
    /\ (pc = "done" /\ mode = "horizontal-area") =>
          /\ parts = splitHorizontalEqualArea(coords.v, NearestCount(AreaRatio))
          /\ Len(parts) <= NearestCount(AreaRatio)

C6_Witness ==
    /\ pc = "done"
    /\ mode = "area"
    /\ AreaRatio = Q(5, 2)
    /\ Len(parts) = 3

\* the candidates of findOptimalSplit on a ring of n points
Candidates(n, steps) ==
    {c \in (0..(n - 1)) \X (0..(n - 1)) \X (1..(steps - 1)) \X (1..(steps - 1)) :
        IAbs(c[1] - c[2]) >= 2 /\ IAbs(c[1] - c[2]) <= n - 2}

\* c comes before d in ascending order of i, then j, then si, then sj
Before(c, d) ==
    \/ c[1] < d[1]
    \/ c[1] = d[1] /\ c[2] < d[2]
    \/ c[1] = d[1] /\ c[2] = d[2] /\ c[3] < d[3]
    \/ c[1] = d[1] /\ c[2] = d[2] /\ c[3] = d[3] /\ c[4] < d[4]

CutOf(ring, steps, c) ==
    splitAtEdges(ring, c[1], c[2], Q(c[3], steps), Q(c[4], steps))

DiffOf(ring, t, steps, c) == QAbs(QSub(shoelaceArea(CutOf(ring, steps, c)[1]), t))

\* C8: findOptimalSplit returns the first candidate, in ascending order of i,
\* j, si, sj over the non-adjacent edge pairs and the fractions k/steps, whose
\* first-piece area differs from the target by less than tolerance * target;
\* if there is none, the candidate with the smallest difference, the earliest
\* among equals.
C8_FirstGoodElseBest ==
    (pc = "cut") =>
        LET cands == Candidates(Len(current), DefaultSteps)
            diff(c) == DiffOf(current, target, DefaultSteps, c)
            good(c) == QLt(diff(c), QMul(DefaultTolerance, target))
        IN  \/ \E c \in cands :
                  /\ good(c)
                  /\ cut = CutOf(current, DefaultSteps, c)
                  /\ \A d \in cands : Before(d, c) => ~good(d)
            \/ /\ \A c \in cands : ~good(c)
               /\ \E c \in cands :
                     /\ cut = CutOf(current, DefaultSteps, c)
                     /\ \A d \in cands :
                           IF Before(d, c) THEN QLt(diff(c), diff(d))
                           ELSE QLe(diff(c), diff(d))
            \/ cands = {} /\ cut = Null

C8_Witness ==
    /\ pc = "cut"
    /\ cut # Null
    /\ ~QLt(QAbs(QSub(shoelaceArea(cut[1]), target)), QMul(DefaultTolerance, target))

\* C9: findOptimalSplit returns null exactly when the ring has fewer than 4
\* points, and both rings of a cut have at least 4; so the remaining ring has
\* at least 4 points after every cut, the search can return null only in the
\* first iteration, a ring of at least 4 points yields exactly count pieces
\* and a ring of fewer than 4 points yields the input ring as the only piece.
C9_NullOnlyBelowFourPoints ==
    /\ (pc = "cut") =>
          /\ (cut = Null) <=> (Len(current) < 4)
          /\ (cut # Null) => (Len(cut[1]) >= 4 /\ Len(cut[2]) >= 4)
          /\ (cut = Null) => i = 0
    /\ (pc \in {"chord", "cut"} /\ i >= 1) => Len(current) >= 4
    /\ (pc = "done" /\ mode \in ChordModes) =>
          IF Len(coords.v) >= 4 THEN Len(parts) = count
          ELSE parts = <<coords.v>>

C9_Witness ==
    /\ pc = "cut"
    /\ cut # Null
    /\ i >= 2
    /\ Len(current) = 4

\* the x-values at which the ring's boundary meets the line at height y
XsAt(ring, y) ==
    LET n == Len(ring)
        onEdge(k) ==
            LET a == ring[k]
                b == ring[(k % n) + 1]
            IN  IF a[2] = b[2] THEN (IF a[2] = y THEN {a[1], b[1]} ELSE {})
                ELSE IF (QLe(a[2], y) /\ QLe(y, b[2])) \/ (QLe(b[2], y) /\ QLe(y, a[2]))
                     THEN {QAdd(a[1], QMul(QDiv(QSub(y, a[2]), QSub(b[2], a[2])),
                                           QSub(b[1], a[1])))}
                     ELSE {}
    IN  UNION {onEdge(k) : k \in 1..n}

\* the width of a convex ring at height y
WidthAt(ring, y) ==
    LET xs == XsAt(ring, y)
        hi == CHOOSE x \in xs : \A z \in xs : QLe(z, x)
        lo == CHOOSE x \in xs : \A z \in xs : QLe(x, z)
    IN  QSub(hi, lo)

RECURSIVE TrapezoidSum(_, _, _)
\* the area of a convex ring between the heights lo and hi, the width being
\* linear between consecutive heights of ys (the ring's vertex heights within)
TrapezoidSum(ring, lo, ys) ==
    IF ys = {} THEN Zero
    ELSE LET nxt == CHOOSE y \in ys : \A z \in ys : QLe(y, z)
         IN  QAdd(QMul(QDiv(QAdd(WidthAt(ring, lo), WidthAt(ring, nxt)), QInt(2)),
                       QSub(nxt, lo)),
                  TrapezoidSum(ring, nxt, ys \ {nxt}))

\* the area of the part of a convex ring between the heights lo and hi
BandArea(ring, lo, hi) ==
    TrapezoidSum(ring, lo,
        {hi} \cup {ring[k][2] : k \in {m \in 1..Len(ring) :
                                          QLt(lo, ring[m][2]) /\ QLt(ring[m][2], hi)}})

\* C10: for a convex ring and a band yMin < yMax inside the ring's y-extent,
\* clipHorizontal returns a closed ring whose points all lie in the band, in
\* the order of the ring's boundary, so that its shoelace area is the area of
\* the ring's part inside the band.
C10_ClipIsTheBand ==
    (/\ clipped # Unset
     /\ IsConvex(polygon)
     /\ QLe(minYOf(polygon), yMin)
     /\ QLt(yMin, yMax)
     /\ QLe(yMax, maxYOf(polygon))) =>
        /\ Len(clipped) > 0
        /\ clipped[1] = clipped[Len(clipped)]
        /\ \A k \in 1..Len(clipped) : QLe(yMin, clipped[k][2]) /\ QLe(clipped[k][2], yMax)
        /\ shoelaceArea(clipped) = BandArea(polygon, yMin, yMax)

====
